---- MODULE Spec2Model ----
(***************************************************************************)
(* Model of 03_Driver_Lesson/temp_led_plus_module.c: a kernel module that  *)
(* samples the "cpu-thermal" zone every TIMEOUT ms from a timer callback,  *)
(* selects one of four bands, drives three LED lines and blinks the active *)
(* one from a second timer callback.  Time is measured in milliseconds,    *)
(* the unit of the arguments the code hands to msecs_to_jiffies.           *)
(***************************************************************************)
EXTENDS Integers, Sequences, FiniteSets, TLC

---------------------------------------------------------------------------
\* Program constants

GPIO_5 == 5
GPIO_6 == 6
GPIO_26 == 26
TIMEOUT == 5000
BLINK_OFF_MS == 10
BLINK_ON_MS == 1
BUFFER_SIZE == 1024
INIT_TEMP_GREEN == 40000
INIT_TEMP_YELLOW == 60000
INIT_TEMP_RED == 75000

\* led_array[]: index 0, 1, 2 -> line number
led_array == [i \in 0..2 |-> IF i = 0 THEN GPIO_5 ELSE IF i = 1 THEN GPIO_6 ELSE GPIO_26]

Pins == {GPIO_5, GPIO_6, GPIO_26}

---------------------------------------------------------------------------
\* Bounds of the model

\* The clock is exact up to MaxNow ms after the module was loaded; from then
\* on it stands still and an armed timer may expire at any moment.
MaxNow == 5000

\* What the sensor may report, in milli-degrees.
Temps == {38000, 40000, 55000, 70000, 75000, 90000}

\* What user space may write into a threshold attribute, one character per
\* element.
StoreTexts ==
  { <<"-", "1", "0", "0", "0", "\n">>,
    <<" ", "8", "0", "0", "0", "0">>,
    <<"h", "o", "t", "\n">> }

\* The readings of the runs in which threshold stores interleave with
\* thermal_callback.
StoreRaceTemps == {55000, 78000}

\* The same for the runs of the attributes alone: -1000, 80000, 3000000000 and
\* a text that is no number, each with whether it is a number, whether that
\* number fits an int, and the text a reader of the number expects back.
AttrInputs ==
  { [text |-> <<"-", "1", "0", "0", "0", "\n">>, numeric |-> TRUE, fits |-> TRUE,
     reads |-> <<"-", "1", "0", "0", "0", "\n">>],
    [text |-> <<" ", "8", "0", "0", "0", "0">>, numeric |-> TRUE, fits |-> TRUE,
     reads |-> <<"8", "0", "0", "0", "0", "\n">>],
    [text |-> <<"3", "0", "0", "0", "0", "0", "0", "0", "0", "0", "\n">>,
     numeric |-> TRUE, fits |-> FALSE,
     reads |-> <<"3", "0", "0", "0", "0", "0", "0", "0", "0", "0", "\n">>],
    [text |-> <<"h", "o", "t", "\n">>, numeric |-> FALSE, fits |-> FALSE,
     reads |-> <<>>] }

AttrTexts == {i.text : i \in AttrInputs}

\* The readings of the runs that interleave the handlers statement by
\* statement.
ConcTemps == {38000, 90000}

\* The processes that use /dev/chrdev0.
Procs == {1, 2}

\* What a process hands to write(2): "abc".
FileData == {<<97, 98, 99>>}

\* The length a process asks read(2) for.
FileReadLens == {4096}

\* The same for the runs in which one file operation ends before the next
\* begins: "abc", "x", and one byte more than data_buffer takes.
SeqData == {<<97, 98, 99>>, <<120>>, [i \in 1..(BUFFER_SIZE + 1) |-> 122]}

SeqReadLens == {2, 4096}

\* The one process that uses the device in those runs.
SeqProcs == {1}

---------------------------------------------------------------------------
VARIABLES
  mod,            \* module life cycle: "unloaded", "failed", "live", "removed"
  tz,             \* what thermal_zone_get_zone_by_name returned
  pc_exit,        \* position of temp_led_exit
  init_ret,       \* what temp_led_init returned ("none" before it ran)
  failed_at,      \* the set-up step of temp_led_init that failed ("none")
  held,           \* resources held, in order of acquisition
  rel_log,        \* release calls made on resources, in order
  now,            \* jiffies, in ms since the module was loaded
  timer_blink,    \* [armed, expires]
  timer_thermal,  \* [armed, expires]
  temp,
  to_temp_green,
  to_temp_yellow,
  to_temp_red,
  gpio_index,
  flag_timer,
  gpio,           \* level of each of the three lines
  pc_thermal,     \* position of thermal_callback
  branch,         \* the branch of the if-chain thermal_callback is in
  tz_err,         \* thermal_zone_get_temp failed in the latest thermal_callback
  pc_blink,       \* position of timer_blink_callback
  bval,           \* timer_blink_callback: the level its branch writes
  bidx,           \* timer_blink_callback: the gpio_index it loaded
  thermal_fired,  \* history: thermal_callback has started at least once
  blink_fired,    \* history: timer_blink_callback has started at least once
  last_blink,     \* history: transition made by the last blink firing
  scen,           \* history: length of the matched prefix of Scenario
  fire_hist,      \* history: the thresholds when the thermal_callback firing in
                  \*   progress began, and how many stores there were since
  idx_seen,       \* history: the values gpio_index has held since the
                  \*   timer_blink_callback firing in progress began
  last_band,      \* history: the branch of the last thermal_callback firing
                  \*   that returned
  is_open,
  data_size,
  data_buffer,    \* the bytes up to the highest one ever written; the rest are 0
  overrun,        \* history: a copy went past the end of data_buffer
  fpc,            \* per process: position in its file operation
  flen,           \* per process: dev_read's len after the clamp
  fsrc,           \* per process: the user buffer handed to dev_write
  fret,           \* per process: what its last file operation returned
  ubuf,           \* per process: the bytes its last dev_read delivered
  freq,           \* history, per process: the len its dev_read was called with
  whist,          \* history: what the last dev_write that returned its length
                  \*   stored, whether a dev_read has returned a length since,
                  \*   and whether a dev_write has failed since
  sysfs_io        \* the page of the last attribute access: which attribute,
                  \*   "store" or "show", and the text passed in or produced

modVars == <<mod, tz, pc_exit, init_ret, failed_at, held, rel_log>>
timerVars == <<timer_blink, timer_thermal>>
threshVars == <<to_temp_green, to_temp_yellow, to_temp_red>>
thermalVars == <<pc_thermal, branch, tz_err>>
blinkVars == <<pc_blink, bval, bidx>>
histCore == <<thermal_fired, blink_fired, last_blink, scen>>

histVars == <<histCore, fire_hist, idx_seen, last_band>>

fileHist == <<freq, whist>>

fileVars == <<is_open, data_size, data_buffer, overrun, fpc, flen, fsrc, fret, ubuf,
              fileHist>>

driverVars == <<modVars, now, timerVars, temp, threshVars, gpio_index,
                flag_timer, gpio, thermalVars, blinkVars, histVars>>

vars == <<driverVars, fileVars, sysfs_io>>

---------------------------------------------------------------------------
\* Timers

Unarmed == [armed |-> FALSE, expires |-> 0]

\* mod_timer(&t, jiffies + msecs_to_jiffies(ms))
mod_timer(ms) == [armed |-> TRUE, expires |-> now + ms]

\* del_timer(&t): takes a pending timer off the wheel
del_timer(t) == [t EXCEPT !.armed = FALSE]

Expired(t) == t.armed /\ (t.expires <= now \/ now >= MaxNow)

Min(a, b) == IF a <= b THEN a ELSE b

PendingExpiries ==
  {t.expires : t \in {x \in {timer_blink, timer_thermal} : x.armed /\ x.expires > now}}

NextDeadline ==
  IF PendingExpiries = {} THEN MaxNow
  ELSE Min(MaxNow, CHOOSE e \in PendingExpiries : \A f \in PendingExpiries : e <= f)

---------------------------------------------------------------------------
\* thermal_callback: the if-chain and what each branch writes

BranchIndex(b) ==
  CASE b = "LOW" -> 2
    [] b = "MID" -> 1
    [] b = "HIGH" -> 0
    [] OTHER -> 0

BranchLevel(b, pin) ==
  CASE b = "LOW" -> IF pin = GPIO_26 THEN 1 ELSE 0
    [] b = "MID" -> IF pin = GPIO_6 THEN 1 ELSE 0
    [] b = "HIGH" -> IF pin = GPIO_5 THEN 1 ELSE 0
    [] OTHER -> 1

Quiet == pc_thermal = "idle" /\ pc_blink = "idle" /\ pc_exit = "none"

\* No thermal_callback firing is in progress.
NoFire == [th |-> <<>>, stores |-> 0]

\* The timer softirq takes the expired timer off the wheel and calls it.
thermal_fire ==
  /\ mod = "live"
  /\ pc_thermal = "idle"
  /\ Expired(timer_thermal)
  /\ timer_thermal' = del_timer(timer_thermal)
  /\ pc_thermal' = "get_temp"
  /\ thermal_fired' = TRUE
  /\ fire_hist' = [th |-> threshVars, stores |-> 0]
  /\ UNCHANGED <<sysfs_io, fileVars, modVars, now, timer_blink, temp, threshVars, gpio_index,
                 flag_timer, gpio, branch, tz_err, blinkVars, blink_fired,
                 last_blink, scen, idx_seen, last_band>>

\* Mutant: a failed read clears the stored temperature.
thermal_get_temp_reset(ok, reading) ==
  /\ pc_thermal = "get_temp"
  /\ ok => tz = "zone"
  /\ temp' = IF ok THEN reading ELSE 0
  /\ tz_err' = ~ok
  /\ pc_thermal' = "cmp_green"
  /\ UNCHANGED <<sysfs_io, fileVars, modVars, now, timerVars, threshVars, gpio_index, flag_timer,
                 gpio, branch, blinkVars, histVars>>

\* if (thermal_zone_get_temp(tz, &temp)) pr_err(...);
thermal_get_temp(ok, reading) ==
  /\ pc_thermal = "get_temp"
  /\ ok => tz = "zone"
  /\ temp' = IF ok THEN reading ELSE temp
  /\ tz_err' = ~ok
  /\ pc_thermal' = "cmp_green"
  /\ UNCHANGED <<sysfs_io, fileVars, modVars, now, timerVars, threshVars, gpio_index, flag_timer,
                 gpio, branch, blinkVars, histVars>>

\* Mutant: the first test is <= instead of <.
thermal_cmp_green_le ==
  /\ pc_thermal = "cmp_green"
  /\ IF temp <= to_temp_green
       THEN branch' = "LOW" /\ pc_thermal' = "index"
       ELSE branch' = branch /\ pc_thermal' = "cmp_yellow"
  /\ UNCHANGED <<sysfs_io, fileVars, modVars, now, timerVars, temp, threshVars, gpio_index,
                 flag_timer, gpio, tz_err, blinkVars, histVars>>

\* if (temp < to_temp_green)
thermal_cmp_green ==
  /\ pc_thermal = "cmp_green"
  /\ IF temp < to_temp_green
       THEN branch' = "LOW" /\ pc_thermal' = "index"
       ELSE branch' = branch /\ pc_thermal' = "cmp_yellow"
  /\ UNCHANGED <<sysfs_io, fileVars, modVars, now, timerVars, temp, threshVars, gpio_index,
                 flag_timer, gpio, tz_err, blinkVars, histVars>>

\* Mutant: the second test compares with to_temp_red.
thermal_cmp_yellow_red ==
  /\ pc_thermal = "cmp_yellow"
  /\ IF temp < to_temp_red
       THEN branch' = "MID" /\ pc_thermal' = "index"
       ELSE branch' = branch /\ pc_thermal' = "cmp_red"
  /\ UNCHANGED <<sysfs_io, fileVars, modVars, now, timerVars, temp, threshVars, gpio_index,
                 flag_timer, gpio, tz_err, blinkVars, histVars>>

\* Mutant: the second test reads to_temp_green once more.
thermal_cmp_yellow_reread ==
  /\ pc_thermal = "cmp_yellow"
  /\ IF temp >= to_temp_green /\ temp < to_temp_yellow
       THEN branch' = "MID" /\ pc_thermal' = "index"
       ELSE branch' = branch /\ pc_thermal' = "cmp_red"
  /\ UNCHANGED <<sysfs_io, fileVars, modVars, now, timerVars, temp, threshVars, gpio_index,
                 flag_timer, gpio, tz_err, blinkVars, histVars>>

\* else if (temp < to_temp_yellow)
thermal_cmp_yellow ==
  /\ pc_thermal = "cmp_yellow"
  /\ IF temp < to_temp_yellow
       THEN branch' = "MID" /\ pc_thermal' = "index"
       ELSE branch' = branch /\ pc_thermal' = "cmp_red"
  /\ UNCHANGED <<sysfs_io, fileVars, modVars, now, timerVars, temp, threshVars, gpio_index,
                 flag_timer, gpio, tz_err, blinkVars, histVars>>

\* Mutant: the third test is <= instead of <.
thermal_cmp_red_le ==
  /\ pc_thermal = "cmp_red"
  /\ branch' = IF temp <= to_temp_red THEN "HIGH" ELSE "CRITICAL"
  /\ pc_thermal' = "index"
  /\ UNCHANGED <<sysfs_io, fileVars, modVars, now, timerVars, temp, threshVars, gpio_index,
                 flag_timer, gpio, tz_err, blinkVars, histVars>>

\* else if (temp < to_temp_red) ... else ...
thermal_cmp_red ==
  /\ pc_thermal = "cmp_red"
  /\ branch' = IF temp < to_temp_red THEN "HIGH" ELSE "CRITICAL"
  /\ pc_thermal' = "index"
  /\ UNCHANGED <<sysfs_io, fileVars, modVars, now, timerVars, temp, threshVars, gpio_index,
                 flag_timer, gpio, tz_err, blinkVars, histVars>>

\* gpio_index = 2 | 1 | 0 | 0;
thermal_set_index ==
  /\ pc_thermal = "index"
  /\ gpio_index' = BranchIndex(branch)
  /\ pc_thermal' = "gpio5"
  /\ idx_seen' = IF pc_blink = "idle" THEN idx_seen ELSE idx_seen \cup {BranchIndex(branch)}
  /\ UNCHANGED <<sysfs_io, fileVars, modVars, now, timerVars, temp, threshVars, flag_timer, gpio,
                 branch, tz_err, blinkVars, histCore, fire_hist, last_band>>

\* gpio_set_value(GPIO_5, ..); gpio_set_value(GPIO_6, ..); gpio_set_value(GPIO_26, ..);
thermal_set_gpio(at, pin, next) ==
  /\ pc_thermal = at
  /\ gpio' = [gpio EXCEPT ![pin] = BranchLevel(branch, pin)]
  /\ pc_thermal' = next
  /\ UNCHANGED <<sysfs_io, fileVars, modVars, now, timerVars, temp, threshVars, gpio_index,
                 flag_timer, branch, tz_err, blinkVars, histVars>>

Scenario == <<38000, 55000, 70000, 90000>>

DefaultThresholds ==
  /\ to_temp_green = INIT_TEMP_GREEN
  /\ to_temp_yellow = INIT_TEMP_YELLOW
  /\ to_temp_red = INIT_TEMP_RED

\* History only: how many consecutive firings, up to this one, sampled the
\* readings of Scenario in order under the default thresholds.
ScenNext ==
  IF tz_err \/ ~DefaultThresholds THEN 0
  ELSE IF scen < Len(Scenario) /\ temp = Scenario[scen + 1] THEN scen + 1
  ELSE IF temp = Scenario[1] THEN 1
  ELSE 0

\* Mutant: thermal_callback returns without mod_timer when the sensor read
\* failed.
thermal_rearm_skip ==
  /\ pc_thermal = "arm"
  /\ timer_thermal' = IF tz_err THEN timer_thermal ELSE mod_timer(TIMEOUT)
  /\ pc_thermal' = "idle"
  /\ branch' = "none"
  /\ scen' = ScenNext
  /\ fire_hist' = NoFire
  /\ last_band' = branch
  /\ UNCHANGED <<sysfs_io, fileVars, modVars, now, timer_blink, temp, threshVars, gpio_index,
                 flag_timer, gpio, tz_err, blinkVars, thermal_fired,
                 blink_fired, last_blink, idx_seen>>

\* mod_timer(&timer_thermal, jiffies + msecs_to_jiffies(TIMEOUT)); return
thermal_rearm ==
  /\ pc_thermal = "arm"
  /\ timer_thermal' = mod_timer(TIMEOUT)
  /\ pc_thermal' = "idle"
  /\ branch' = "none"
  /\ scen' = ScenNext
  /\ fire_hist' = NoFire
  /\ last_band' = branch
  /\ UNCHANGED <<sysfs_io, fileVars, modVars, now, timer_blink, temp, threshVars, gpio_index,
                 flag_timer, gpio, tz_err, blinkVars, thermal_fired,
                 blink_fired, last_blink, idx_seen>>

thermal_step ==
  \/ \E ok \in BOOLEAN, reading \in Temps : thermal_get_temp(ok, reading)
  \/ thermal_cmp_green
  \/ thermal_cmp_yellow
  \/ thermal_cmp_red
  \/ thermal_set_index
  \/ thermal_set_gpio("gpio5", GPIO_5, "gpio6")
  \/ thermal_set_gpio("gpio6", GPIO_6, "gpio26")
  \/ thermal_set_gpio("gpio26", GPIO_26, "arm")
  \/ thermal_rearm

---------------------------------------------------------------------------
\* timer_blink_callback

blink_fire ==
  /\ mod = "live"
  /\ pc_blink = "idle"
  /\ Expired(timer_blink)
  /\ timer_blink' = del_timer(timer_blink)
  /\ pc_blink' = "test"
  /\ blink_fired' = TRUE
  /\ idx_seen' = {gpio_index}
  /\ UNCHANGED <<sysfs_io, fileVars, modVars, now, timer_thermal, temp, threshVars, gpio_index,
                 flag_timer, gpio, thermalVars, bval, bidx, thermal_fired,
                 last_blink, scen, fire_hist, last_band>>

\* if (flag_timer == false) ... else ...
blink_test ==
  /\ pc_blink = "test"
  /\ bval' = IF flag_timer = FALSE THEN 0 ELSE 1
  /\ pc_blink' = "load"
  /\ UNCHANGED <<sysfs_io, fileVars, modVars, now, timerVars, temp, threshVars, gpio_index,
                 flag_timer, gpio, thermalVars, bidx, histVars>>

\* Mutant: the firing uses the index it was left with instead of loading
\* gpio_index.
blink_load_index_stale ==
  /\ pc_blink = "load"
  /\ bidx' = bidx
  /\ pc_blink' = "set"
  /\ UNCHANGED <<sysfs_io, fileVars, modVars, now, timerVars, temp, threshVars, gpio_index,
                 flag_timer, gpio, thermalVars, bval, histVars>>

\* led_array[gpio_index].gpio
blink_load_index ==
  /\ pc_blink = "load"
  /\ bidx' = gpio_index
  /\ pc_blink' = "set"
  /\ UNCHANGED <<sysfs_io, fileVars, modVars, now, timerVars, temp, threshVars, gpio_index,
                 flag_timer, gpio, thermalVars, bval, histVars>>

\* Mutant: the blink writes every line, not only the active one.
blink_set_gpio_all ==
  /\ pc_blink = "set"
  /\ gpio' = [p \in Pins |-> bval]
  /\ last_blink' = IF bval = 0 THEN "off" ELSE "on"
  /\ pc_blink' = "arm"
  /\ UNCHANGED <<sysfs_io, fileVars, modVars, now, timerVars, temp, threshVars, gpio_index,
                 flag_timer, thermalVars, bval, bidx, thermal_fired,
                 blink_fired, scen, fire_hist, idx_seen, last_band>>

\* gpio_set_value(led_array[gpio_index].gpio, 0 | 1);
blink_set_gpio ==
  /\ pc_blink = "set"
  /\ gpio' = [gpio EXCEPT ![led_array[bidx]] = bval]
  /\ last_blink' = IF bval = 0 THEN "off" ELSE "on"
  /\ pc_blink' = "arm"
  /\ UNCHANGED <<sysfs_io, fileVars, modVars, now, timerVars, temp, threshVars, gpio_index,
                 flag_timer, thermalVars, bval, bidx, thermal_fired,
                 blink_fired, scen, fire_hist, idx_seen, last_band>>

\* mod_timer(&timer_blink, jiffies + msecs_to_jiffies(10 | 1));
blink_rearm ==
  /\ pc_blink = "arm"
  /\ timer_blink' = mod_timer(IF bval = 0 THEN BLINK_OFF_MS ELSE BLINK_ON_MS)
  /\ pc_blink' = "flip"
  /\ UNCHANGED <<sysfs_io, fileVars, modVars, now, timer_thermal, temp, threshVars, gpio_index,
                 flag_timer, gpio, thermalVars, bval, bidx, histVars>>

\* Mutant: the phase flag is left as it was.
blink_flip_stuck ==
  /\ pc_blink = "flip"
  /\ flag_timer' = flag_timer
  /\ pc_blink' = "idle"
  /\ bval' = 0
  /\ bidx' = 0
  /\ idx_seen' = {}
  /\ UNCHANGED <<sysfs_io, fileVars, modVars, now, timerVars, temp, threshVars, gpio_index, gpio,
                 thermalVars, histCore, fire_hist, last_band>>

\* Mutant: the blink firing also puts the active index back to 0.
blink_flip_reindex ==
  /\ pc_blink = "flip"
  /\ flag_timer' = ~flag_timer
  /\ gpio_index' = 0
  /\ pc_blink' = "idle"
  /\ bval' = 0
  /\ bidx' = 0
  /\ idx_seen' = {}
  /\ UNCHANGED <<sysfs_io, fileVars, modVars, now, timerVars, temp, threshVars, gpio,
                 thermalVars, histCore, fire_hist, last_band>>

\* flag_timer = !flag_timer; return
blink_flip ==
  /\ pc_blink = "flip"
  /\ flag_timer' = ~flag_timer
  /\ pc_blink' = "idle"
  /\ bval' = 0
  /\ bidx' = 0
  /\ idx_seen' = {}
  /\ UNCHANGED <<sysfs_io, fileVars, modVars, now, timerVars, temp, threshVars, gpio_index, gpio,
                 thermalVars, histCore, fire_hist, last_band>>

blink_step ==
  \/ blink_test
  \/ blink_load_index
  \/ blink_set_gpio
  \/ blink_rearm
  \/ blink_flip

---------------------------------------------------------------------------
\* Resources of the module, and temp_led_init

Res(h, l) == [held |-> h, log |-> l]

Acq(s, r) == [s EXCEPT !.held = Append(@, r)]

Rel(s, r) == [held |-> SelectSeq(s.held, LAMBDA x : x # r), log |-> Append(s.log, r)]

Holds(r) == \E i \in 1..Len(held) : held[i] = r

SysfsFiles == {"sysfs_green", "sysfs_yellow", "sysfs_red"}

\* kobject_put(chrdev_kobj) drops the last reference: the directory goes and
\* its files with it.  The sysfs_remove_file(kernel_kobj, ..) calls that
\* follow name another directory and remove nothing of the module's.
kobject_put(s) ==
  [held |-> SelectSeq(s.held, LAMBDA x : x # "kobj" /\ x \notin SysfsFiles),
   log |-> Append(s.log, "kobj")]

\* The labels at the end of temp_led_init, each falling through to the next.
cdev_err(s) == Rel(s, "cdev")

class_err(s) == cdev_err(Rel(s, "class"))

device_err(s) == class_err(Rel(s, "region"))

sysfs_err(s) == device_err(kobject_put(s))

InitSteps ==
  <<"alloc_chrdev_region", "cdev_add", "class_create", "device_create",
    "sysfs_green", "sysfs_yellow", "sysfs_red", "proc_mkdir", "proc_create",
    "gpio_request_array", "thermal_zone">>

InitFailures == {InitSteps[i] : i \in 1..Len(InitSteps)}

\* What thermal_zone_get_zone_by_name may hand back: the zone, the NULL the
\* code tests for, or the ERR_PTR the kernel returns for an unknown name.
ZoneResults == {"zone", "NULL", "ERR_PTR"}

\* The run of temp_led_init up to its return, given the step that fails
\* ("none": no step fails): resources, return value, whether the lines were
\* requested and whether the end of the function (the timers) was reached.
InitRun(fail, zone) ==
  LET a1 == Acq(Res(<<>>, <<>>), "region")
      a2 == Acq(a1, "cdev")
      a3 == Acq(a2, "class")
      a4 == Acq(Acq(a3, "device"), "kobj")
      a5 == Acq(a4, "sysfs_green")
      a6 == Acq(a5, "sysfs_yellow")
      a7 == Acq(a6, "sysfs_red")
      a8 == Acq(a7, "proc_dir")
      a9 == Acq(a8, "proc_file")
      a10 == Acq(a9, "gpio")
      Out(s, r, lines, end) == [res |-> s, ret |-> r, lines |-> lines, end |-> end]
  IN CASE fail = "alloc_chrdev_region" -> Out(Res(<<>>, <<>>), "major", FALSE, FALSE)
       [] fail = "cdev_add" -> Out(cdev_err(a1), "0", FALSE, FALSE)
       [] fail = "class_create" -> Out(class_err(a2), "0", FALSE, FALSE)
       [] fail = "device_create" -> Out(device_err(a3), "0", FALSE, FALSE)
       [] fail = "sysfs_green" -> Out(sysfs_err(a4), "0", FALSE, FALSE)
       [] fail = "sysfs_yellow" -> Out(sysfs_err(a5), "0", FALSE, FALSE)
       [] fail = "sysfs_red" -> Out(sysfs_err(a6), "0", FALSE, FALSE)
       [] fail = "proc_mkdir" -> Out(a7, "-ENOMEM", FALSE, FALSE)
       [] fail = "proc_create" -> Out(Rel(a8, "proc_dir"), "-ENOMEM", FALSE, FALSE)
       [] fail = "gpio_request_array" -> Out(a9, "-1", FALSE, FALSE)
       [] fail = "thermal_zone" /\ zone = "NULL" -> Out(a10, "-EINVAL", TRUE, FALSE)
       [] OTHER -> Out(a10, "0", TRUE, TRUE)

\* Mutant: LED_26 is requested with GPIOF_OUT_INIT_LOW.
GreenLow == [p \in Pins |-> IF p = GPIO_26 THEN 0 ELSE 1]

\* GPIOF_OUT_INIT_HIGH on each entry of led_array
AllHigh == [p \in Pins |-> 1]

temp_led_init(fail, zone, ok, reading) ==
  /\ mod = "unloaded"
  /\ (fail = "thermal_zone") = (zone # "zone")
  /\ ok => zone = "zone"
  /\ LET r == InitRun(fail, zone) IN
       /\ held' = r.res.held
       /\ rel_log' = r.res.log
       /\ init_ret' = r.ret
       /\ mod' = IF r.ret = "0" THEN "live" ELSE "failed"
       /\ gpio' = IF r.lines THEN AllHigh ELSE gpio
       /\ tz' = IF r.lines THEN zone ELSE tz
       /\ temp' = IF r.end /\ ok THEN reading ELSE temp
       /\ timer_blink' = IF r.end THEN mod_timer(TIMEOUT) ELSE timer_blink
       /\ timer_thermal' = IF r.end THEN mod_timer(TIMEOUT) ELSE timer_thermal
  /\ failed_at' = fail
  /\ is_open' = 0
  /\ data_size' = 0
  /\ UNCHANGED <<data_buffer, overrun, fpc, flen, fsrc, fret, ubuf, fileHist, sysfs_io>>
  /\ UNCHANGED <<pc_exit, now, threshVars, gpio_index, flag_timer, thermalVars,
                 blinkVars, histVars>>

---------------------------------------------------------------------------
\* temp_led_exit

\* kobject_put .. unregister_chrdev_region
exit_unregister ==
  /\ mod = "live"
  /\ pc_exit = "none"
  /\ LET s == Rel(Rel(Rel(Rel(kobject_put(Res(held, rel_log)), "device"),
                          "class"), "cdev"), "region")
     IN held' = s.held /\ rel_log' = s.log
  /\ pc_exit' = "del_blink"
  /\ UNCHANGED <<sysfs_io, fileVars, mod, tz, init_ret, failed_at, now, timerVars, temp, threshVars,
                 gpio_index, flag_timer, gpio, thermalVars, blinkVars, histVars>>

\* del_timer(&timer_blink);
exit_del_timer_blink ==
  /\ pc_exit = "del_blink"
  /\ timer_blink' = del_timer(timer_blink)
  /\ pc_exit' = "del_thermal"
  /\ UNCHANGED <<sysfs_io, fileVars, mod, tz, init_ret, failed_at, held, rel_log, now,
                 timer_thermal, temp, threshVars, gpio_index, flag_timer, gpio,
                 thermalVars, blinkVars, histVars>>

\* del_timer(&timer_thermal);
exit_del_timer_thermal ==
  /\ pc_exit = "del_thermal"
  /\ timer_thermal' = del_timer(timer_thermal)
  /\ pc_exit' = "gpio_free"
  /\ UNCHANGED <<sysfs_io, fileVars, mod, tz, init_ret, failed_at, held, rel_log, now, timer_blink,
                 temp, threshVars, gpio_index, flag_timer, gpio, thermalVars,
                 blinkVars, histVars>>

\* gpio_free_array(led_array, ARRAY_SIZE(led_array));
exit_gpio_free ==
  /\ pc_exit = "gpio_free"
  /\ LET s == Rel(Res(held, rel_log), "gpio")
     IN held' = s.held /\ rel_log' = s.log
  /\ pc_exit' = "proc_remove"
  /\ UNCHANGED <<sysfs_io, fileVars, mod, tz, init_ret, failed_at, now, timerVars, temp, threshVars,
                 gpio_index, flag_timer, gpio, thermalVars, blinkVars, histVars>>

\* proc_remove(proc_file); proc_remove(proc_folder); return
exit_proc_remove ==
  /\ pc_exit = "proc_remove"
  /\ LET s == Rel(Rel(Res(held, rel_log), "proc_file"), "proc_dir")
     IN held' = s.held /\ rel_log' = s.log
  /\ pc_exit' = "done"
  /\ mod' = "removed"
  /\ UNCHANGED <<sysfs_io, fileVars, tz, init_ret, failed_at, now, timerVars, temp, threshVars,
                 gpio_index, flag_timer, gpio, thermalVars, blinkVars, histVars>>

exit_step ==
  \/ exit_del_timer_blink
  \/ exit_del_timer_thermal
  \/ exit_gpio_free
  \/ exit_proc_remove

---------------------------------------------------------------------------
\* The threshold attributes and the proc file

Digits == {"0", "1", "2", "3", "4", "5", "6", "7", "8", "9"}

DigitVal(c) ==
  CASE c = "0" -> 0 [] c = "1" -> 1 [] c = "2" -> 2 [] c = "3" -> 3
    [] c = "4" -> 4 [] c = "5" -> 5 [] c = "6" -> 6 [] c = "7" -> 7
    [] c = "8" -> 8 [] OTHER -> 9

RECURSIVE SkipSpace(_)
SkipSpace(s) ==
  IF s # <<>> /\ Head(s) \in {" ", "\n", "\t"} THEN SkipSpace(Tail(s)) ELSE s

\* The digits at the head of s as the int that sscanf assigns: the number is
\* accumulated modulo 2^32, kept as two 16-bit halves, and read as signed.
RECURSIVE ScanDigits(_, _, _)
ScanDigits(s, hi, lo) ==
  IF s # <<>> /\ Head(s) \in Digits
    THEN LET l == 10 * lo + DigitVal(Head(s))
         IN  ScanDigits(Tail(s), (10 * hi + l \div 65536) % 65536, l % 65536)
    ELSE (IF hi >= 32768 THEN hi - 65536 ELSE hi) * 65536 + lo

\* -x as an int: INT_MIN stays INT_MIN.
Negate(x) == IF x = (0 - 32768) * 65536 THEN x ELSE 0 - x

\* sscanf(buf, "%d", &x): [ok, val]; nothing is assigned unless a digit follows
\* the optional sign, and the number scanned is narrowed to the int x.
sscanf_d(buf) ==
  LET s == SkipSpace(buf)
      neg == s # <<>> /\ Head(s) = "-"
      d == IF neg THEN Tail(s) ELSE s
  IN IF d # <<>> /\ Head(d) \in Digits
       THEN [ok |-> TRUE,
             val |-> IF neg THEN Negate(ScanDigits(d, 0, 0)) ELSE ScanDigits(d, 0, 0)]
       ELSE [ok |-> FALSE, val |-> 0]

\* Scanned with a store that refuses a negative number.
Scanned_nonneg(buf, old) ==
  IF sscanf_d(buf).ok /\ sscanf_d(buf).val >= 0 THEN sscanf_d(buf).val ELSE old

Scanned(buf, old) == IF sscanf_d(buf).ok THEN sscanf_d(buf).val ELSE old

\* fire_hist with one store more during a thermal_callback firing, counted up
\* to two.
StoreSeen ==
  IF pc_thermal = "idle"
    THEN fire_hist
    ELSE [fire_hist EXCEPT !.stores = IF @ = 0 THEN 1 ELSE 2]

sysfs_green_store(buf) ==
  /\ mod = "live"
  /\ Holds("sysfs_green")
  /\ to_temp_green' = Scanned(buf, to_temp_green)
  /\ fire_hist' = StoreSeen
  /\ UNCHANGED <<fileVars, modVars, now, timerVars, temp, to_temp_yellow, to_temp_red,
                 gpio_index, flag_timer, gpio, thermalVars, blinkVars, histCore,
                 idx_seen, last_band>>

sysfs_yellow_store(buf) ==
  /\ mod = "live"
  /\ Holds("sysfs_yellow")
  /\ to_temp_yellow' = Scanned(buf, to_temp_yellow)
  /\ fire_hist' = StoreSeen
  /\ UNCHANGED <<fileVars, modVars, now, timerVars, temp, to_temp_green, to_temp_red,
                 gpio_index, flag_timer, gpio, thermalVars, blinkVars, histCore,
                 idx_seen, last_band>>

sysfs_red_store(buf) ==
  /\ mod = "live"
  /\ Holds("sysfs_red")
  /\ to_temp_red' = Scanned(buf, to_temp_red)
  /\ fire_hist' = StoreSeen
  /\ UNCHANGED <<fileVars, modVars, now, timerVars, temp, to_temp_green, to_temp_yellow,
                 gpio_index, flag_timer, gpio, thermalVars, blinkVars, histCore,
                 idx_seen, last_band>>

\* The decimal digits of n >= 0, most significant first.
RECURSIVE DecDigits(_)
DecDigits(n) ==
  LET c == CHOOSE d \in Digits : DigitVal(d) = n % 10
  IN IF n < 10 THEN <<c>> ELSE Append(DecDigits(n \div 10), c)

\* sprintf(buf, "%d\n", x): the text left in buf.
sprintf_d(x) ==
  (IF x = (0 - 32768) * 65536
     THEN <<"-", "2", "1", "4", "7", "4", "8", "3", "6", "4", "8">>
     ELSE IF x < 0 THEN <<"-">> \o DecDigits(0 - x) ELSE DecDigits(x)) \o <<"\n">>

\* The attribute and the text of a store, as the page holds them.
Stored(a, buf) == sysfs_io' = [attr |-> a, op |-> "store", text |-> buf]

sysfs_green_show ==
  /\ mod = "live"
  /\ Holds("sysfs_green")
  /\ sysfs_io' = [attr |-> "green", op |-> "show", text |-> sprintf_d(to_temp_green)]
  /\ UNCHANGED <<driverVars, fileVars>>

sysfs_yellow_show ==
  /\ mod = "live"
  /\ Holds("sysfs_yellow")
  /\ sysfs_io' = [attr |-> "yellow", op |-> "show", text |-> sprintf_d(to_temp_yellow)]
  /\ UNCHANGED <<driverVars, fileVars>>

sysfs_red_show ==
  /\ mod = "live"
  /\ Holds("sysfs_red")
  /\ sysfs_io' = [attr |-> "red", op |-> "show", text |-> sprintf_d(to_temp_red)]
  /\ UNCHANGED <<driverVars, fileVars>>

\* hello_read: the read of /proc/chrdev_proc/chrdev_temp_blink_proc samples the
\* zone into the same temp.
hello_read(ok, reading) ==
  /\ mod = "live"
  /\ Holds("proc_file")
  /\ ok => tz = "zone"
  /\ temp' = IF ok THEN reading ELSE temp
  /\ UNCHANGED <<sysfs_io, fileVars, modVars, now, timerVars, threshVars, gpio_index, flag_timer,
                 gpio, thermalVars, blinkVars, histVars>>

---------------------------------------------------------------------------
\* Time

Tick ==
  /\ mod = "live"
  /\ now < MaxNow
  /\ now' = NextDeadline
  /\ UNCHANGED <<sysfs_io, fileVars, modVars, timerVars, temp, threshVars, gpio_index, flag_timer,
                 gpio, thermalVars, blinkVars, histVars>>

---------------------------------------------------------------------------
\* /dev/chrdev0: dev_open, dev_release, dev_read, dev_write

Ret(e, n) == [err |-> e, n |-> n]

\* The device can be opened while its cdev is registered.
Registered == mod = "live" /\ Holds("cdev")

\* if (is_open) return -EBUSY;
dev_open_test(p) ==
  /\ Registered
  /\ fpc[p] = "closed"
  /\ IF is_open # 0
       THEN fpc' = fpc /\ fret' = [fret EXCEPT ![p] = Ret("EBUSY", 0)]
       ELSE fpc' = [fpc EXCEPT ![p] = "open_set"] /\ fret' = fret
  /\ UNCHANGED <<sysfs_io, driverVars, fileHist, is_open, data_size, data_buffer, overrun, flen,
                 fsrc, ubuf>>

\* is_open = 1; return 0;
dev_open_set(p) ==
  /\ fpc[p] = "open_set"
  /\ is_open' = 1
  /\ fpc' = [fpc EXCEPT ![p] = "open"]
  /\ fret' = [fret EXCEPT ![p] = Ret("none", 0)]
  /\ UNCHANGED <<sysfs_io, driverVars, fileHist, data_size, data_buffer, overrun, flen, fsrc, ubuf>>

\* is_open = 0; return 0;
dev_release(p) ==
  /\ fpc[p] = "open"
  /\ is_open' = 0
  /\ fpc' = [fpc EXCEPT ![p] = "closed"]
  /\ fret' = [fret EXCEPT ![p] = Ret("none", 0)]
  /\ UNCHANGED <<sysfs_io, driverVars, fileHist, data_size, data_buffer, overrun, flen, fsrc, ubuf>>

\* data_size = len;
dev_write_size(p, src) ==
  /\ fpc[p] = "open"
  /\ data_size' = Len(src)
  /\ fsrc' = [fsrc EXCEPT ![p] = src]
  /\ fpc' = [fpc EXCEPT ![p] = "wr_clamp"]
  /\ UNCHANGED <<sysfs_io, driverVars, fileHist, is_open, data_buffer, overrun, flen, fret, ubuf>>

\* if (data_size > BUFFER_SIZE) data_size = BUFFER_SIZE;
dev_write_clamp(p) ==
  /\ fpc[p] = "wr_clamp"
  /\ data_size' = IF data_size > BUFFER_SIZE THEN BUFFER_SIZE ELSE data_size
  /\ fpc' = [fpc EXCEPT ![p] = "wr_copy"]
  /\ UNCHANGED <<sysfs_io, driverVars, fileHist, is_open, data_buffer, overrun, flen, fsrc, fret, ubuf>>

\* The first BUFFER_SIZE bytes of a user buffer.
Trunc(src) == SubSeq(src, 1, Min(Len(src), BUFFER_SIZE))

UserByte(src, i) == IF i < Len(src) THEN src[i + 1] ELSE 0

\* data_buffer[i], 0 <= i < BUFFER_SIZE: a static array, zero until written.
BufByte(i) == IF i < Len(data_buffer) THEN data_buffer[i + 1] ELSE 0

Max(a, b) == IF a >= b THEN a ELSE b

\* copy_from_user(data_buffer, src, n) that leaves `left` bytes uncopied: the
\* bytes it could not copy are zeroed in the destination.
copy_from_user(src, n, left) ==
  [k \in 1..Max(Len(data_buffer), Min(n, BUFFER_SIZE)) |->
     IF k - 1 < n - left THEN UserByte(src, k - 1)
     ELSE IF k - 1 < n THEN 0
     ELSE BufByte(k - 1)]

\* The numbers of uncopied bytes tried for a copy of n bytes.
Faults(n) == IF n = 0 THEN {0} ELSE {0, 1, n}

\* ret = copy_from_user(data_buffer, buffer, data_size);
\* if (ret) return -EFAULT; return data_size;
dev_write_copy(p, left) ==
  /\ fpc[p] = "wr_copy"
  /\ data_buffer' = copy_from_user(fsrc[p], data_size, left)
  /\ overrun' = (overrun \/ data_size > BUFFER_SIZE)
  /\ fret' = [fret EXCEPT ![p] = IF left # 0 THEN Ret("EFAULT", 0)
                                            ELSE Ret("none", data_size)]
  /\ fpc' = [fpc EXCEPT ![p] = "open"]
  /\ fsrc' = [fsrc EXCEPT ![p] = <<>>]
  /\ whist' = IF left # 0
                THEN [whist EXCEPT !.dirty = TRUE]
                ELSE [data |-> Trunc(fsrc[p]), unread |-> TRUE, dirty |-> FALSE]
  /\ UNCHANGED <<sysfs_io, driverVars, freq, is_open, data_size, flen, ubuf>>

\* if (len > data_size) len = data_size;
dev_read_clamp(p, len) ==
  /\ fpc[p] = "open"
  /\ flen' = [flen EXCEPT ![p] = IF len > data_size THEN data_size ELSE len]
  /\ fpc' = [fpc EXCEPT ![p] = "rd_copy"]
  /\ freq' = [freq EXCEPT ![p] = len]
  /\ UNCHANGED <<sysfs_io, driverVars, whist, is_open, data_size, data_buffer, overrun,
                 fsrc, fret, ubuf>>

\* ret = copy_to_user(buffer, data_buffer, len); if (ret) return -EFAULT;
dev_read_copy(p, fault) ==
  /\ fpc[p] = "rd_copy"
  /\ overrun' = (overrun \/ flen[p] > BUFFER_SIZE)
  /\ IF fault
       THEN /\ fret' = [fret EXCEPT ![p] = Ret("EFAULT", 0)]
            /\ fpc' = [fpc EXCEPT ![p] = "open"]
            /\ flen' = [flen EXCEPT ![p] = 0]
            /\ freq' = [freq EXCEPT ![p] = 0]
            /\ ubuf' = ubuf
       ELSE /\ ubuf' = [ubuf EXCEPT ![p] =
                          [k \in 1..Min(flen[p], BUFFER_SIZE) |-> BufByte(k - 1)]]
            /\ fpc' = [fpc EXCEPT ![p] = "rd_reset"]
            /\ UNCHANGED <<fret, flen, freq>>
  /\ UNCHANGED <<sysfs_io, driverVars, whist, is_open, data_size, data_buffer, fsrc>>

\* dev_read_reset without "data_size = 0".
dev_read_reset_keep(p) ==
  /\ fpc[p] = "rd_reset"
  /\ data_size' = data_size
  /\ fret' = [fret EXCEPT ![p] = Ret("none", flen[p])]
  /\ fpc' = [fpc EXCEPT ![p] = "open"]
  /\ flen' = [flen EXCEPT ![p] = 0]
  /\ freq' = [freq EXCEPT ![p] = 0]
  /\ whist' = [data |-> <<>>, unread |-> FALSE, dirty |-> FALSE]
  /\ UNCHANGED <<sysfs_io, driverVars, is_open, data_buffer, overrun, fsrc, ubuf>>

\* data_size = 0; return len;
dev_read_reset(p) ==
  /\ fpc[p] = "rd_reset"
  /\ data_size' = 0
  /\ fret' = [fret EXCEPT ![p] = Ret("none", flen[p])]
  /\ fpc' = [fpc EXCEPT ![p] = "open"]
  /\ flen' = [flen EXCEPT ![p] = 0]
  /\ freq' = [freq EXCEPT ![p] = 0]
  /\ whist' = [data |-> <<>>, unread |-> FALSE, dirty |-> FALSE]
  /\ UNCHANGED <<sysfs_io, driverVars, is_open, data_buffer, overrun, fsrc, ubuf>>

---------------------------------------------------------------------------
\* The state of the module's statics before insmod

Init ==
  /\ mod = "unloaded"
  /\ tz = "none"
  /\ pc_exit = "none"
  /\ init_ret = "none"
  /\ failed_at = "none"
  /\ held = <<>>
  /\ rel_log = <<>>
  /\ now = 0
  /\ timer_blink = Unarmed
  /\ timer_thermal = Unarmed
  /\ temp = 0
  /\ to_temp_green = INIT_TEMP_GREEN
  /\ to_temp_yellow = INIT_TEMP_YELLOW
  /\ to_temp_red = INIT_TEMP_RED
  /\ gpio_index = 0
  /\ flag_timer = FALSE
  /\ gpio = [p \in Pins |-> 0]
  /\ pc_thermal = "idle"
  /\ branch = "none"
  /\ tz_err = FALSE
  /\ pc_blink = "idle"
  /\ bval = 0
  /\ bidx = 0
  /\ thermal_fired = FALSE
  /\ blink_fired = FALSE
  /\ last_blink = "none"
  /\ scen = 0
  /\ fire_hist = NoFire
  /\ idx_seen = {}
  /\ last_band = "none"
  /\ is_open = 0
  /\ data_size = 0
  /\ data_buffer = <<>>
  /\ overrun = FALSE
  /\ fpc = [p \in Procs |-> "closed"]
  /\ flen = [p \in Procs |-> 0]
  /\ fsrc = [p \in Procs |-> <<>>]
  /\ fret = [p \in Procs |-> Ret("none", 0)]
  /\ ubuf = [p \in Procs |-> <<>>]
  /\ freq = [p \in Procs |-> 0]
  /\ whist = [data |-> <<>>, unread |-> FALSE, dirty |-> FALSE]
  /\ sysfs_io = [attr |-> "none", op |-> "none", text |-> <<>>]

\* One CPU: a handler that was entered runs to its return before the next
\* one is entered.
Next ==
  \/ \E fail \in InitFailures \cup {"none"}, zone \in ZoneResults,
        ok \in BOOLEAN, reading \in Temps : temp_led_init(fail, zone, ok, reading)
  \/ Quiet /\ Tick
  \/ Quiet /\ thermal_fire
  \/ thermal_step
  \/ Quiet /\ blink_fire
  \/ blink_step
  \/ \E buf \in StoreTexts : Quiet /\ sysfs_green_store(buf) /\ UNCHANGED sysfs_io
  \/ \E buf \in StoreTexts : Quiet /\ sysfs_yellow_store(buf) /\ UNCHANGED sysfs_io
  \/ \E buf \in StoreTexts : Quiet /\ sysfs_red_store(buf) /\ UNCHANGED sysfs_io
  \/ \E ok \in BOOLEAN, reading \in Temps : Quiet /\ hello_read(ok, reading)
  \/ Quiet /\ exit_unregister
  \/ exit_step

Spec == Init /\ [][Next]_vars

\* The two timer loops on one CPU, with a zone that can be read and one that
\* cannot.
thermal_step_live ==
  \/ \E ok \in BOOLEAN, reading \in ConcTemps : thermal_get_temp(ok, reading)
  \/ thermal_cmp_green
  \/ thermal_cmp_yellow
  \/ thermal_cmp_red
  \/ thermal_set_index
  \/ thermal_set_gpio("gpio5", GPIO_5, "gpio6")
  \/ thermal_set_gpio("gpio6", GPIO_6, "gpio26")
  \/ thermal_set_gpio("gpio26", GPIO_26, "arm")
  \/ thermal_rearm

NextLive ==
  \/ \E fail \in {"none", "gpio_request_array"}, zone \in {"zone", "ERR_PTR"},
        ok \in BOOLEAN, reading \in ConcTemps : temp_led_init(fail, zone, ok, reading)
  \/ Quiet /\ Tick
  \/ Quiet /\ thermal_fire
  \/ thermal_step_live
  \/ Quiet /\ blink_fire
  \/ blink_step
  \/ Quiet /\ exit_unregister
  \/ exit_step

\* Time passes, the timer softirq calls every timer that has expired, however
\* often the other one expires, and a callback that was called runs to its
\* return.
SpecLive ==
  /\ Init
  /\ [][NextLive]_vars
  /\ WF_vars(Quiet /\ Tick)
  /\ SF_vars(Quiet /\ thermal_fire)
  /\ SF_vars(Quiet /\ blink_fire)
  /\ WF_vars(thermal_step_live)
  /\ WF_vars(blink_step)

\* Several CPUs: the timer callbacks and temp_led_exit interleave statement
\* by statement.
NextConc ==
  \/ \E zone \in {"zone"}, reading \in ConcTemps :
        temp_led_init("none", zone, TRUE, reading)
  \/ Tick
  \/ thermal_fire
  \/ \E ok \in BOOLEAN, reading \in ConcTemps : thermal_get_temp(ok, reading)
  \/ thermal_cmp_green
  \/ thermal_cmp_yellow
  \/ thermal_cmp_red
  \/ thermal_set_index
  \/ thermal_set_gpio("gpio5", GPIO_5, "gpio6")
  \/ thermal_set_gpio("gpio6", GPIO_6, "gpio26")
  \/ thermal_set_gpio("gpio26", GPIO_26, "arm")
  \/ thermal_rearm
  \/ blink_fire
  \/ blink_step
  \/ exit_unregister
  \/ exit_step

SpecConc == Init /\ [][NextConc]_vars

\* The processes that use /dev/chrdev0, interleaved statement by statement.
NextFile ==
  \/ temp_led_init("none", "zone", TRUE, 38000)
  \/ \E p \in Procs : dev_open_test(p)
  \/ \E p \in Procs : dev_open_set(p)
  \/ \E p \in Procs : dev_release(p)
  \/ \E p \in Procs, src \in FileData : dev_write_size(p, src)
  \/ \E p \in Procs : dev_write_clamp(p)
  \/ \E p \in Procs, left \in Faults(data_size) : dev_write_copy(p, left)
  \/ \E p \in Procs, len \in FileReadLens : dev_read_clamp(p, len)
  \/ \E p \in Procs, fault \in BOOLEAN : dev_read_copy(p, fault)
  \/ \E p \in Procs : dev_read_reset(p)

SpecFile == Init /\ [][NextFile]_vars

\* thermal_callback interleaved statement by statement with threshold stores.
NextStore ==
  \/ \E reading \in StoreRaceTemps : temp_led_init("none", "zone", TRUE, reading)
  \/ Tick
  \/ thermal_fire
  \/ \E ok \in BOOLEAN, reading \in StoreRaceTemps : thermal_get_temp(ok, reading)
  \/ thermal_cmp_green
  \/ thermal_cmp_yellow
  \/ thermal_cmp_red
  \/ thermal_set_index
  \/ thermal_set_gpio("gpio5", GPIO_5, "gpio6")
  \/ thermal_set_gpio("gpio6", GPIO_6, "gpio26")
  \/ thermal_set_gpio("gpio26", GPIO_26, "arm")
  \/ thermal_rearm
  \/ \E buf \in StoreTexts : sysfs_green_store(buf) /\ UNCHANGED sysfs_io
  \/ \E buf \in StoreTexts : sysfs_yellow_store(buf) /\ UNCHANGED sysfs_io
  \/ \E buf \in StoreTexts : sysfs_red_store(buf) /\ UNCHANGED sysfs_io

SpecStore == Init /\ [][NextStore]_vars

\* The threshold attributes and the proc file, one access at a time, with the
\* timers left out.
NextAttr ==
  \/ temp_led_init("none", "zone", TRUE, 38000)
  \/ \E buf \in AttrTexts : sysfs_green_store(buf) /\ Stored("green", buf)
  \/ \E buf \in AttrTexts : sysfs_yellow_store(buf) /\ Stored("yellow", buf)
  \/ \E buf \in AttrTexts : sysfs_red_store(buf) /\ Stored("red", buf)
  \/ sysfs_green_show
  \/ sysfs_yellow_show
  \/ sysfs_red_show
  \/ \E reading \in ConcTemps : hello_read(TRUE, reading)

SpecAttr == Init /\ [][NextAttr]_vars

\* No process is inside a file operation.
FileQuiet == \A p \in Procs : fpc[p] \in {"closed", "open"}

\* The file operations, each running to its return before the next begins.
NextFileSeq ==
  \/ temp_led_init("none", "zone", TRUE, 38000)
  \/ \E p \in SeqProcs : FileQuiet /\ dev_open_test(p)
  \/ \E p \in SeqProcs : dev_open_set(p)
  \/ \E p \in SeqProcs : FileQuiet /\ dev_release(p)
  \/ \E p \in SeqProcs, src \in SeqData : FileQuiet /\ dev_write_size(p, src)
  \/ \E p \in SeqProcs : dev_write_clamp(p)
  \/ \E p \in SeqProcs, left \in Faults(data_size) : dev_write_copy(p, left)
  \/ \E p \in SeqProcs, len \in SeqReadLens : FileQuiet /\ dev_read_clamp(p, len)
  \/ \E p \in SeqProcs, fault \in BOOLEAN : dev_read_copy(p, fault)
  \/ \E p \in SeqProcs : dev_read_reset(p)

SpecFileSeq == Init /\ [][NextFileSeq]_vars

\* Process 1 writes one byte more than data_buffer takes while process 2
\* reads, interleaved at each statement.
NextFileRace ==
  \/ temp_led_init("none", "zone", TRUE, 38000)
  \/ \E p \in Procs : dev_open_test(p)
  \/ \E p \in Procs : dev_open_set(p)
  \/ \E p \in Procs : dev_release(p)
  \/ dev_write_size(1, [i \in 1..(BUFFER_SIZE + 1) |-> 122])
  \/ dev_write_clamp(1)
  \/ \E left \in Faults(data_size) : dev_write_copy(1, left)
  \/ \E len \in FileReadLens : dev_read_clamp(2, len)
  \/ \E fault \in BOOLEAN : dev_read_copy(2, fault)
  \/ dev_read_reset(2)

SpecFileRace == Init /\ [][NextFileRace]_vars

---------------------------------------------------------------------------
\* Properties

\* The band of a reading: the first matching test of the strict sequence.
ClaimBand(t, g, y, r) ==
  IF t < g THEN "LOW" ELSE IF t < y THEN "MID" ELSE IF t < r THEN "HIGH" ELSE "CRITICAL"

BandNow == ClaimBand(temp, to_temp_green, to_temp_yellow, to_temp_red)

\* thermal_callback has made its last write and is about to re-arm and return.
ThermalWritten == pc_thermal = "arm"

\* C1: for every reading and every triple of thresholds, ordered or not, a
\* firing of thermal_callback leaves the pattern of the first matching test:
\* LOW -> index 2, RED and YELLOW off; MID -> index 1, RED and GREEN off;
\* HIGH -> index 0, YELLOW and GREEN off; CRITICAL -> index 0, YELLOW and
\* GREEN on.
C1_FirstMatchWins ==
  ThermalWritten =>
    CASE BandNow = "LOW" ->
           gpio_index = 2 /\ gpio[GPIO_5] = 0 /\ gpio[GPIO_6] = 0
      [] BandNow = "MID" ->
           gpio_index = 1 /\ gpio[GPIO_5] = 0 /\ gpio[GPIO_26] = 0
      [] BandNow = "HIGH" ->
           gpio_index = 0 /\ gpio[GPIO_6] = 0 /\ gpio[GPIO_26] = 0
      [] OTHER ->
           gpio_index = 0 /\ gpio[GPIO_6] = 1 /\ gpio[GPIO_26] = 1

\* A firing that classified a reading under thresholds that are out of order
\* and include a negative one.
C1_Witness ==
  /\ ThermalWritten
  /\ to_temp_green > to_temp_yellow
  /\ to_temp_yellow < 0
  /\ BandNow = "HIGH"

\* C2 as stated: every reading at or above to_temp_red ends CRITICAL.
C2_AnyThresholds ==
  (ThermalWritten /\ temp >= to_temp_red) =>
    (gpio_index = 0 /\ gpio[GPIO_6] = 1 /\ gpio[GPIO_26] = 1)

\* C2 amended: a reading at or above all three thresholds (so any reading at
\* or above to_temp_red when the thresholds are in order) ends CRITICAL:
\* index 0 (RED), YELLOW and GREEN asserted.
C2_Critical ==
  (ThermalWritten /\ temp >= to_temp_red /\ temp >= to_temp_yellow
     /\ temp >= to_temp_green) =>
    (gpio_index = 0 /\ gpio[GPIO_6] = 1 /\ gpio[GPIO_26] = 1)

\* A firing whose reading equals to_temp_red.
C2_Witness ==
  /\ ThermalWritten
  /\ temp = to_temp_red
  /\ temp >= to_temp_yellow
  /\ temp >= to_temp_green
  /\ gpio_index = 0

\* C3 as stated: a reading equal to to_temp_green ends MID.
C3_AnyThresholds ==
  (ThermalWritten /\ temp = to_temp_green) => gpio_index = 1

\* C3 amended: a reading equal to to_temp_green is never LOW (GREEN is not
\* the active index), and it is MID (index 1, YELLOW) whenever it is below
\* to_temp_yellow, as it is when the thresholds are in order.
C3_TieGoesUp ==
  (ThermalWritten /\ temp = to_temp_green) =>
    /\ gpio_index # 2
    /\ temp < to_temp_yellow => (gpio_index = 1 /\ gpio[GPIO_6] = 1)

\* A firing whose reading equals to_temp_green, below to_temp_yellow.
C3_Witness ==
  /\ ThermalWritten
  /\ temp = to_temp_green
  /\ temp < to_temp_yellow
  /\ gpio_index = 1

\* C4: every firing of thermal_callback leaves the index of the band of the
\* reading it sampled, whatever the firings before it and the blink firings
\* in between did; after consecutive firings that sampled 38000, 55000,
\* 70000, 90000 under the default thresholds the index was 2, 1, 0, 0, and
\* from the fourth on YELLOW and GREEN stay asserted until thermal_callback
\* fires again.
C4_ActiveFollowsSample ==
  /\ ThermalWritten =>
       gpio_index = (IF BandNow = "LOW" THEN 2 ELSE IF BandNow = "MID" THEN 1 ELSE 0)
  /\ (pc_thermal = "idle" /\ scen >= 1) => gpio_index = <<2, 1, 0, 0>>[scen]
  /\ (pc_thermal = "idle" /\ scen = 4) => (gpio[GPIO_6] = 1 /\ gpio[GPIO_26] = 1)

\* The four firings of the scenario, then a blink firing that turned RED off.
C4_Witness ==
  /\ scen = 4
  /\ pc_thermal = "idle"
  /\ pc_blink = "idle"
  /\ last_blink = "off"
  /\ gpio[GPIO_5] = 0

\* C5: a firing of thermal_callback whose sensor read fails keeps the stored
\* temperature, classifies that value, writes index and lines for its band,
\* re-arms timer_thermal for TIMEOUT ms, and leaves the module loaded.
C5_SensorFailure ==
  [][/\ (pc_thermal = "get_temp" /\ pc_thermal' # "get_temp" /\ tz_err')
          => (temp' = temp /\ mod' = mod)
     /\ (pc_thermal = "arm" /\ pc_thermal' = "idle" /\ tz_err)
          => /\ gpio_index' = BranchIndex(BandNow)
             /\ \A p \in Pins : gpio'[p] = BranchLevel(BandNow, p)
             /\ timer_thermal'.armed
             /\ timer_thermal'.expires = now + TIMEOUT
             /\ mod' = "live"]_vars

\* A firing whose read failed has returned; the stored temperature is the
\* earlier 90000 and the lines show CRITICAL.
C5_Witness ==
  /\ pc_thermal = "idle"
  /\ thermal_fired
  /\ tz_err
  /\ temp = 90000
  /\ gpio_index = 0
  /\ gpio[GPIO_26] = 1
  /\ timer_thermal.armed

\* temp_led_init ran to its end: lines requested, both timers started.
InitSucceeded == mod = "live" /\ Holds("gpio") /\ pc_exit = "none"

\* C6 as stated: all three lines stay asserted until thermal_callback first
\* fires.
C6_UntilThermal ==
  (InitSucceeded /\ ~thermal_fired) => \A p \in Pins : gpio[p] = 1

\* C6 amended: after a successful temp_led_init all three lines are asserted
\* and stay so until the first firing of either timer callback; neither
\* callback fires earlier than TIMEOUT ms after temp_led_init.
C6_BootIndication ==
  /\ (InitSucceeded /\ ~thermal_fired /\ ~blink_fired) => \A p \in Pins : gpio[p] = 1
  /\ (thermal_fired \/ blink_fired) => now >= TIMEOUT

\* The module is loaded, time has passed, no callback has fired yet.
C6_Witness ==
  /\ InitSucceeded
  /\ now = TIMEOUT
  /\ ~thermal_fired
  /\ ~blink_fired
  /\ \A p \in Pins : gpio[p] = 1

\* C7: the firings of timer_blink_callback alternate, the first one turning
\* the active line off: a firing that turns it off re-arms for 10 ms, one
\* that turns it on for 1 ms, and each firing flips flag_timer.
C7_BlinkAlternates ==
  [][/\ (pc_blink = "set" /\ pc_blink' = "arm")
          => /\ last_blink' # last_blink
             /\ last_blink = "none" => last_blink' = "off"
             /\ gpio'[led_array[gpio_index]] = (IF last_blink' = "off" THEN 0 ELSE 1)
     /\ (pc_blink = "arm" /\ pc_blink' = "flip")
          => /\ timer_blink'.armed
             /\ timer_blink'.expires =
                  now + (IF last_blink = "off" THEN BLINK_OFF_MS ELSE BLINK_ON_MS)
     /\ (pc_blink = "flip" /\ pc_blink' = "idle")
          => flag_timer' = ~flag_timer]_vars

\* Two firings have returned: off, then on.
C7_Witness ==
  /\ pc_blink = "idle"
  /\ last_blink = "on"
  /\ flag_timer = FALSE
  /\ timer_blink.armed

\* The callbacks that are between their entry and their return.
InFlight ==
  {c \in {"blink", "thermal"} :
     (c = "blink" /\ pc_blink # "idle") \/ (c = "thermal" /\ pc_thermal # "idle")}

\* C8: by the time temp_led_exit releases the lines with gpio_free_array,
\* and from then on, no callback is in flight (so none writes a released
\* line) and neither timer is armed.
C8_QuiescedBeforeFree ==
  pc_exit \in {"proc_remove", "done"} =>
    (InFlight = {} /\ ~timer_blink.armed /\ ~timer_thermal.armed)

Reverse(q) == [i \in 1..Len(q) |-> q[Len(q) + 1 - i]]

AcqOrder ==
  <<"region", "cdev", "class", "device", "kobj", "sysfs_green", "sysfs_yellow",
    "sysfs_red", "proc_dir", "proc_file", "gpio">>

\* C9: when gpio_request_array fails or the zone is not found, temp_led_init
\* fails, everything acquired before is released in reverse order of
\* acquisition, and neither timer is armed.
C9_InitUnwinds ==
  /\ failed_at = "gpio_request_array" =>
       /\ init_ret \notin {"none", "0"}
       /\ held = <<>>
       /\ rel_log = Reverse(SubSeq(AcqOrder, 1, 10))
       /\ ~timer_blink.armed /\ ~timer_thermal.armed
  /\ failed_at = "thermal_zone" =>
       /\ init_ret \notin {"none", "0"}
       /\ held = <<>>
       /\ rel_log = Reverse(AcqOrder)
       /\ ~timer_blink.armed /\ ~timer_thermal.armed

\* The processes whose dev_open returned 0 and that have not closed the file.
Holders == {p \in Procs : fpc[p] \notin {"closed", "open_set"}}

\* C10: at most one process holds the device at any time, and the open flag
\* is set for as long as one does.
C10_ExclusiveOpen ==
  /\ Cardinality(Holders) <= 1
  /\ Holders # {} => is_open = 1


---------------------------------------------------------------------------
\* Loopback buffer, one file operation at a time

\* Process p's dev_read returns a length in this step.
ReadReturns(p) == fpc[p] = "rd_reset" /\ fpc'[p] = "open"

\* What a dev_read has to deliver: the content of the last dev_write while no
\* dev_read has returned a length since, nothing otherwise.
Readable == IF whist.unread THEN whist.data ELSE <<>>

\* C11 as stated: the dev_read that follows a dev_write of n <= 1024 bytes
\* returns exactly those n bytes and resets the recorded length to zero.
C11_ReturnsAll ==
  [][\A p \in Procs :
       ReadReturns(p) /\ whist.unread /\ ~whist.dirty
         => /\ fret'[p] = Ret("none", Len(whist.data))
            /\ ubuf'[p] = whist.data
            /\ data_size' = 0]_vars

\* C11: a dev_read called with len after dev_write stored n bytes returns the
\* first min(len, n) of them and resets the recorded length to zero; every
\* further dev_read before the next dev_write returns zero bytes; the next
\* dev_write replaces the content and makes it readable once again.
C11_Loopback ==
  [][\A p \in Procs :
       ReadReturns(p) /\ ~whist.dirty
         => LET n == Min(freq[p], Len(Readable))
            IN  /\ fret'[p] = Ret("none", n)
                /\ ubuf'[p] = SubSeq(Readable, 1, n)
                /\ data_size' = 0]_vars

\* A dev_read asking for 2 bytes has returned "ab" of the stored "abc", and
\* the recorded length is zero.
C11_Witness ==
  /\ fpc[1] = "open"
  /\ fret[1] = Ret("none", 2)
  /\ ubuf[1] = <<97, 98>>
  /\ ~whist.unread /\ ~whist.dirty
  /\ data_size = 0


\* C12: in every reachable state the recorded length is between 0 and the
\* capacity of data_buffer, and no dev_read or dev_write has accessed
\* data_buffer beyond its 1024 bytes.
C12_Bounded ==
  /\ 0 <= data_size
  /\ data_size <= BUFFER_SIZE
  /\ ~overrun


\* C13: a dev_write or dev_read whose copy fails retains no partial state:
\* between calls the recorded length and the bytes of data_buffer are those of
\* the last dev_write that succeeded (nothing once a dev_read has returned
\* them), however many calls have failed since.
C13_NoPartialState ==
  FileQuiet =>
    /\ data_size = Len(Readable)
    /\ \A k \in 1..Len(Readable) : BufByte(k - 1) = Readable[k]


---------------------------------------------------------------------------
\* Threshold attributes

Threshold(a) ==
  CASE a = "green" -> to_temp_green
    [] a = "yellow" -> to_temp_yellow
    [] OTHER -> to_temp_red

\* The text an attribute shows before anything was stored.
DefaultText(a) ==
  CASE a = "green" -> <<"4", "0", "0", "0", "0", "\n">>
    [] a = "yellow" -> <<"6", "0", "0", "0", "0", "\n">>
    [] OTHER -> <<"7", "5", "0", "0", "0", "\n">>

\* This step is the show of the attribute that was stored to in the step
\* before.
ShowAfterStore ==
  /\ sysfs_io.op = "store"
  /\ sysfs_io'.op = "show"
  /\ sysfs_io'.attr = sysfs_io.attr

\* This step is a store (one that repeats the store before it, attribute and
\* text, changes nothing and is no step).
StoreStep == sysfs_io' # sysfs_io /\ sysfs_io'.op = "store"

\* C14 as stated: storing any integer into a threshold and then reading the
\* threshold returns that integer.
C14_AnyInteger ==
  [][ShowAfterStore =>
       \A i \in AttrInputs :
         i.text = sysfs_io.text /\ i.numeric => sysfs_io'.text = i.reads]_vars

\* C14: storing an integer that fits an int (negative allowed, no bounds or
\* ordering check) into a threshold and then reading the threshold returns it;
\* the store leaves the other two thresholds, the temperature, the active
\* index and the phase unchanged; a text that is no number leaves all three
\* thresholds unchanged; before any store the thresholds read 40000, 60000
\* and 75000.
C14_RoundTrip ==
  [][/\ ShowAfterStore =>
          \A i \in AttrInputs :
            i.text = sysfs_io.text /\ i.fits => sysfs_io'.text = i.reads
     /\ StoreStep =>
          /\ \A a \in {"green", "yellow", "red"} \ {sysfs_io'.attr} :
                Threshold(a)' = Threshold(a)
          /\ <<temp, gpio_index, flag_timer>>' = <<temp, gpio_index, flag_timer>>
          /\ \A i \in AttrInputs :
                i.text = sysfs_io'.text /\ ~i.numeric => threshVars' = threshVars
     /\ sysfs_io.op = "none" /\ sysfs_io'.op = "show" =>
          sysfs_io'.text = DefaultText(sysfs_io'.attr)]_vars

\* green_ceiling reads -1000 after -1000 was stored into it, the other two
\* thresholds having been changed before.
C14_Witness ==
  /\ sysfs_io = [attr |-> "green", op |-> "show",
                 text |-> <<"-", "1", "0", "0", "0", "\n">>]
  /\ to_temp_green = 0 - 1000
  /\ to_temp_yellow = 80000
  /\ to_temp_red # INIT_TEMP_RED


---------------------------------------------------------------------------
\* Threshold stores during a thermal_callback firing

BandOf(t, th) == ClaimBand(t, th[1], th[2], th[3])

\* C15: when at most one threshold store interleaves with a thermal_callback
\* firing, the firing's band, active index and output levels are those of
\* classifying the temperature with the complete threshold triple of before
\* the store or with the complete triple of after it.
C15_OldOrNew ==
  (pc_thermal = "arm" /\ fire_hist.stores <= 1) =>
    /\ branch \in {BandOf(temp, fire_hist.th), BandOf(temp, threshVars)}
    /\ gpio_index = BranchIndex(branch)
    /\ \A pin \in Pins : gpio[pin] = BranchLevel(branch, pin)

\* A firing that began with red_ceiling at 75000 and saw it stored as 80000
\* has classified 78000 as HIGH.
C15_Witness ==
  /\ pc_thermal = "arm"
  /\ fire_hist = [th |-> <<INIT_TEMP_GREEN, INIT_TEMP_YELLOW, INIT_TEMP_RED>>,
                  stores |-> 1]
  /\ to_temp_red = 80000
  /\ temp = 78000
  /\ branch = "HIGH"


---------------------------------------------------------------------------
\* The two timer loops

\* C16: after temp_led_init ran to its end and until temp_led_exit begins,
\* every return of thermal_callback, whatever its branch and also when the
\* sensor read failed, leaves the thermal timer armed for TIMEOUT after the
\* firing, armed by that return alone; every return of timer_blink_callback
\* leaves the blink timer armed; a timer is never unarmed while its callback
\* is not running; and each callback fires again and again until shutdown.
C16_LoopsRun ==
  /\ [][/\ (pc_thermal = "arm" /\ pc_thermal' = "idle")
            => ~timer_thermal.armed /\ timer_thermal' = mod_timer(TIMEOUT)
        /\ (pc_blink = "arm" /\ pc_blink' # "arm")
            => ~timer_blink.armed /\ timer_blink'.armed]_vars
  /\ [](InitSucceeded /\ pc_thermal = "idle" => timer_thermal.armed)
  /\ [](InitSucceeded /\ pc_blink = "idle" => timer_blink.armed)
  /\ [](InitSucceeded /\ pc_thermal = "idle" => <>(pc_thermal # "idle" \/ pc_exit # "none"))
  /\ [](InitSucceeded /\ pc_blink = "idle" => <>(pc_blink # "idle" \/ pc_exit # "none"))

\* thermal_callback has returned from a firing in which the sensor read
\* failed, with its timer armed for TIMEOUT from now, and timer_blink_callback
\* has fired and returned too.
C16_Witness ==
  /\ InitSucceeded
  /\ thermal_fired /\ tz_err /\ pc_thermal = "idle"
  /\ timer_thermal = mod_timer(TIMEOUT)
  /\ blink_fired /\ pc_blink = "idle"
  /\ timer_blink.armed


---------------------------------------------------------------------------
\* The active index between the two callbacks

\* timer_blink_callback has loaded the index it acts on.
IndexLoaded == pc_blink \in {"set", "arm", "flip"}

\* C17: the index a timer_blink_callback firing acts on is a value gpio_index
\* held during that firing, initially 0 or written whole by thermal_callback,
\* so always 0, 1 or 2; a firing during which thermal_callback wrote no index
\* acts on the current one, so a change takes effect at the latest on the
\* blink firing that follows it.
C17_IndexUsed ==
  /\ gpio_index \in {0, 1, 2}
  /\ bidx \in {0, 1, 2}
  /\ IndexLoaded => bidx \in idx_seen
  /\ (IndexLoaded /\ idx_seen = {gpio_index}) => bidx = gpio_index
  /\ ~thermal_fired => gpio_index = 0

\* A blink firing that began with index 0 has loaded the index 2 that
\* thermal_callback wrote meanwhile.
C17_Witness ==
  /\ pc_blink = "set"
  /\ idx_seen = {0, 2}
  /\ bidx = 2
  /\ gpio_index = 2


---------------------------------------------------------------------------
\* What each callback writes

\* A step of timer_blink_callback, of thermal_callback.
BlinkStep == pc_blink' # pc_blink

ThermalStep == pc_thermal' # pc_thermal

\* C18: a firing of timer_blink_callback writes no output line but the one at
\* the active index, and leaves the active index, the temperature and the
\* thresholds unchanged; a firing of thermal_callback leaves the phase flag
\* and the thresholds unchanged; and nothing but thermal_callback changes the
\* active index.
C18_Frame ==
  [][/\ BlinkStep =>
          /\ \A pin \in Pins \ {led_array[gpio_index]} : gpio'[pin] = gpio[pin]
          /\ <<gpio_index, temp, threshVars>>' = <<gpio_index, temp, threshVars>>
     /\ ThermalStep => <<flag_timer, threshVars>>' = <<flag_timer, threshVars>>
     /\ flag_timer' # flag_timer => BlinkStep
     /\ gpio_index' # gpio_index => ThermalStep]_vars

\* In the LOW band a blink firing has turned GREEN off and flipped the phase
\* flag: all three lines are low and the index is still 2.
C18_Witness ==
  /\ thermal_fired /\ blink_fired
  /\ pc_thermal = "idle" /\ pc_blink = "idle"
  /\ gpio_index = 2
  /\ flag_timer = TRUE
  /\ \A pin \in Pins : gpio[pin] = 0


\* C19: whenever neither callback is running and a thermal_callback firing
\* has returned, every output other than the active one holds the level the
\* last thermal_callback firing gave it, also when the two callbacks
\* interleave statement by statement.
C19_OthersHold ==
  (pc_thermal = "idle" /\ pc_blink = "idle" /\ pc_exit = "none" /\ last_band # "none") =>
    \A pin \in Pins \ {led_array[gpio_index]} : gpio[pin] = BranchLevel(last_band, pin)


---------------------------------------------------------------------------
\* What temp_led_init returns

\* C20: whenever a setup step of temp_led_init fails, temp_led_init returns
\* an error code, never 0, and neither timer is armed.
C20_FailureReturnsError ==
  failed_at # "none" =>
    /\ init_ret \notin {"none", "0"}
    /\ ~timer_blink.armed /\ ~timer_thermal.armed

====
